---- MODULE Spec2Model ----
(***************************************************************************)
(* Model of the ingestion pipeline of company_inner_search_app:            *)
(* initialize.py (initialize, initialize_retriever, load_data_sources,     *)
(* recursive_file_check, file_load, load_csv_as_unified_document,          *)
(* adjust_string) as driven by main.py, one Streamlit script run after     *)
(* another over one session state.                                         *)
(*                                                                         *)
(* Python values are tagged tuples: PyStr(s) with s a sequence of symbols,   *)
(* PyInt(n), and None.  A symbol is one character of a cell value, or one    *)
(* literal piece of an f-string template (written in English here, the     *)
(* Japanese original is given in the comment of its definition).           *)
(***************************************************************************)
EXTENDS Integers, Sequences, FiniteSets, TLC

VARIABLES
    pc,             \* position of the script run in main.py / initialize.py
    runs,           \* number of script runs started so far
    platform,       \* sys.platform
    api_key,        \* os.getenv("OPENAI_API_KEY") is set
    retriever,      \* st.session_state.retriever (Absent when the key is missing)
    messages,       \* st.session_state.messages (Absent when the key is missing)
    chat_history,   \* st.session_state.chat_history
    session_id,     \* st.session_state.session_id
    initialized,    \* "initialized" in st.session_state
    screen,         \* what the page shows, and what the widgets handed to the run
    exc,            \* the exception in flight, NoExc when none
    todo,           \* recursive_file_check: the paths still to visit, in walk order
    docs_all,       \* load_data_sources / initialize_retriever: docs_all
    web_todo,       \* load_data_sources: the URLs still to fetch
    web_docs_all,   \* load_data_sources: web_docs_all (kept until the next load begins)
    splitted_docs,  \* initialize_retriever: splitted_docs
    db,             \* initialize_retriever: db (the FAISS store being built)
    last_load,      \* the latest file_load call (path, outcome, the csv locals) or fetch
    had_retriever,  \* history: a retriever was published when this run's rebuild began
    ingest_runs,    \* history: number of times load_data_sources was entered
    sourced,        \* history: the documents the sources handed over in this run
    log,            \* the warnings this run wrote to the logger, in order
    root_exists,    \* history: os.path.exists(ct.RAG_TOP_FOLDER_PATH) as this run found it
    call,           \* a function applied on its own: its arguments and what it returned
    world           \* what the disk and the web hold, when that is the same for every run

vars == <<pc, runs, platform, api_key, retriever, messages, chat_history,
          session_id, initialized, screen, exc, todo, docs_all, web_todo,
          web_docs_all, splitted_docs, db, last_load, had_retriever,
          ingest_runs, sourced, log, root_exists, call, world>>

-----------------------------------------------------------------------------
(* Bounds of the model *)

MaxRuns == 2
MaxRows == 3

-----------------------------------------------------------------------------
(* Python values *)

None == <<"NoneType">>
PyStr(s) == <<"str", s>>
PyInt(n) == <<"int", n>>
IsStr(v) == v[1] = "str"

Absent == <<"absent">>
NoExc == "no exception"

NL == "\n"
INDENT == "   "
Whitespace == {" ", INDENT, NL}

RECURSIVE Digits(_)
Digits(n) == IF n < 10 THEN <<ToString(n)>> ELSE Digits(n \div 10) \o <<ToString(n % 10)>>

\* str(v) as an f-string renders it
Format(v) ==
    IF v[1] = "str" THEN v[2]
    ELSE IF v[1] = "int" THEN Digits(v[2])
    ELSE <<"N", "o", "n", "e">>

RECURSIVE Concat(_)
Concat(ss) == IF ss = <<>> THEN <<>> ELSE Head(ss) \o Concat(Tail(ss))

Range(s) == {s[i] : i \in DOMAIN s}

\* dict.get(key, default)
Get(row, key, default) == IF key \in DOMAIN row THEN row[key] ELSE default

-----------------------------------------------------------------------------
(* The employee table: field names and literals of load_csv_as_unified_document.
   Every literal of the source is one symbol; the original is in the comment. *)

F_ID == "employee_id"             \* '社員ID'
F_NAME == "full_name"             \* '氏名（フルネーム）'
F_DEPT == "department"            \* '部署'
F_POSITION == "position"          \* '役職'
F_TYPE == "employee_type"         \* '従業員区分'
F_AGE == "age"                    \* '年齢'
F_JOIN == "join_date"             \* '入社日'
F_SKILLS == "skill_set"           \* 'スキルセット'
F_QUAL == "qualifications"        \* '保有資格'
F_UNIV == "university"            \* '大学名'
F_FACULTY == "faculty"            \* '学部・学科'
F_EMAIL == "email"                \* 'メールアドレス'

HR == PyStr(<<"HR">>)               \* '人事部'
UNKNOWN == PyStr(<<"unknown">>)     \* '不明'
ALL_COMPANY == PyStr(<<"company">>) \* '全社'

\* csv.DictReader: every row is a dict over the header's field names; a row
\* with fewer cells than the header gets None (restval) for the missing ones.
\* (Cells beyond the header, kept under the key None, are not modelled: the
\* files of the model never have more cells than header fields.)
DictRow(header, rec) ==
    [k \in Range(header) |->
        LET i == CHOOSE j \in DOMAIN header : header[j] = k
        IN  IF i <= Len(rec) THEN PyStr(rec[i]) ELSE None]

DictReader(file) == [i \in DOMAIN file.records |-> DictRow(file.header, file.records[i])]

\* os.path.basename and os.path.splitext(path)[1] of a path given as symbols:
\* directory names and "/" symbols, then the file's stem and its extension.
RECURSIVE basename(_)
basename(path) ==
    IF path = <<>> THEN <<>>
    ELSE IF path[Len(path)] = "/" THEN <<>>
    ELSE basename(SubSeq(path, 1, Len(path) - 1)) \o <<path[Len(path)]>>

KnownSuffixes == {".csv", ".pdf", ".txt", ".docx", ".xyz"}

splitext(path) ==
    IF path # <<>> /\ path[Len(path)] \in KnownSuffixes THEN path[Len(path)] ELSE ""

\* LangChainDocument(page_content=..., metadata=...)
Document(text, md) == [page_content |-> PyStr(text), metadata |-> md]

\* hr_employees = [row for row in rows if row.get('部署') == '人事部']
HrEmployees(rows) == SelectSeq(rows, LAMBDA row : Get(row, F_DEPT, None) = HR)

HrDetail(i, emp) ==
    <<"[">> \o Digits(i) \o <<"] HR employee", NL>>                       \* 【{i}】人事部従業員
    \o <<"name: ">> \o Format(Get(emp, F_NAME, UNKNOWN)) \o <<NL>>
    \o <<"employee_id: ">> \o Format(Get(emp, F_ID, UNKNOWN)) \o <<NL>>
    \o <<"department: HR", NL>>
    \o <<"position: ">> \o Format(Get(emp, F_POSITION, UNKNOWN)) \o <<NL>>
    \o <<"employee_type: ">> \o Format(Get(emp, F_TYPE, UNKNOWN)) \o <<NL>>
    \o <<"age: ">> \o Format(Get(emp, F_AGE, UNKNOWN)) \o <<"years", NL>>
    \o <<"join_date: ">> \o Format(Get(emp, F_JOIN, UNKNOWN)) \o <<NL>>
    \o <<"skill_set: ">> \o Format(Get(emp, F_SKILLS, UNKNOWN)) \o <<NL>>
    \o <<"qualifications: ">> \o Format(Get(emp, F_QUAL, UNKNOWN)) \o <<NL>>
    \o <<"university: ">> \o Format(Get(emp, F_UNIV, UNKNOWN)) \o <<" ">>
        \o Format(Get(emp, F_FACULTY, UNKNOWN)) \o <<NL>>
    \o <<"email: ">> \o Format(Get(emp, F_EMAIL, UNKNOWN)) \o <<NL>>
    \o <<"belongs to HR: yes", NL>>
    \o <<"HR division: HR", NL, NL>>

\* "{i}. {name} ({emp_id})\n": the numbered line of the rosters
NumberedLine(i, emp) ==
    Digits(i) \o <<". ">> \o Format(Get(emp, F_NAME, UNKNOWN))
    \o <<" (">> \o Format(Get(emp, F_ID, UNKNOWN)) \o <<")", NL>>

HrText(hr_employees) ==
    <<"# HR complete list", NL>>                                           \* ■ 人事部従業員完全一覧
    \o <<"HR total: ">> \o Digits(Len(hr_employees)) \o <<" persons", NL, NL>>
    \o <<"HR employees:", NL, NL>>
    \o Concat([i \in DOMAIN hr_employees |-> HrDetail(i, hr_employees[i])])
    \o <<"HR roster:", NL>>
    \o Concat([i \in DOMAIN hr_employees |-> NumberedLine(i, hr_employees[i])])

HrDoc(csv_path, hr_employees) ==
    Document(HrText(hr_employees),
             [source |-> PyStr(csv_path),
              department |-> HR,
              employee_count |-> PyInt(Len(hr_employees)),
              type |-> PyStr(<<"hr_complete_list">>),
              file_name |-> PyStr(basename(csv_path)),
              description |-> PyStr(<<"complete list of all HR employees">>)])

HrDocsAlways(csv_path, hr_employees) == <<HrDoc(csv_path, hr_employees)>>

\* lines 356-407: the complete roster exists only when hr_employees is not empty
HrDocs(csv_path, hr_employees) ==
    IF hr_employees # <<>> THEN <<HrDoc(csv_path, hr_employees)>> ELSE <<>>

\* One step of the grouping loop (lines 411-415): department_groups is a dict
\* in insertion order, here a sequence of [department, employees].
AddRowLosingFirst(department_groups, row) ==
    LET department == Get(row, F_DEPT, UNKNOWN)
        known == \E i \in DOMAIN department_groups :
                     department_groups[i].department = department
    IN  IF ~known
        THEN Append(department_groups, [department |-> department, employees |-> <<>>])
        ELSE [i \in DOMAIN department_groups |->
                 IF department_groups[i].department = department
                 THEN [department_groups[i] EXCEPT !.employees = Append(@, row)]
                 ELSE department_groups[i]]

AddRow(department_groups, row) ==
    LET department == Get(row, F_DEPT, UNKNOWN)
        known == \E i \in DOMAIN department_groups :
                     department_groups[i].department = department
        groups == IF known THEN department_groups
                  ELSE Append(department_groups,
                              [department |-> department, employees |-> <<>>])
    IN  [i \in DOMAIN groups |->
            IF groups[i].department = department
            THEN [groups[i] EXCEPT !.employees = Append(@, row)]
            ELSE groups[i]]

RECURSIVE GroupRows(_, _)
GroupRows(department_groups, rows) ==
    IF rows = <<>> THEN department_groups
    ELSE GroupRows(AddRow(department_groups, Head(rows)), Tail(rows))

DepartmentGroups(rows) == GroupRows(<<>>, rows)

DeptMember(i, department, emp) ==
    NumberedLine(i, emp)
    \o <<INDENT, "department: ">> \o Format(department) \o <<NL>>
    \o <<INDENT, "position: ">> \o Format(Get(emp, F_POSITION, UNKNOWN)) \o <<NL>>
    \o <<INDENT, "skill_set: ">> \o Format(Get(emp, F_SKILLS, UNKNOWN)) \o <<NL, NL>>

DeptText(department, employees) ==
    <<"# employees of ">> \o Format(department) \o <<NL>>                 \* ■ {department}の従業員一覧
    \o <<"department name: ">> \o Format(department) \o <<NL>>
    \o <<"members: ">> \o Digits(Len(employees)) \o <<" persons", NL, NL>>
    \o Concat([i \in DOMAIN employees |-> DeptMember(i, department, employees[i])])

DeptDoc(csv_path, group) ==
    Document(DeptText(group.department, group.employees),
             [source |-> PyStr(csv_path),
              department |-> group.department,
              employee_count |-> PyInt(Len(group.employees)),
              type |-> PyStr(<<"department_summary">>),
              file_name |-> PyStr(basename(csv_path))])

DeptDocs(csv_path, department_groups) ==
    [g \in DOMAIN department_groups |-> DeptDoc(csv_path, department_groups[g])]

AllEntryShifted(i, row) ==
    NumberedLine(i - 1, row)
    \o <<INDENT, "department: ">> \o Format(Get(row, F_DEPT, UNKNOWN)) \o <<NL>>
    \o <<INDENT, "position: ">> \o Format(Get(row, F_POSITION, UNKNOWN)) \o <<NL, NL>>

\* lines 459-462: enumerate(rows, 1)
AllEntry(i, row) ==
    NumberedLine(i, row)
    \o <<INDENT, "department: ">> \o Format(Get(row, F_DEPT, UNKNOWN)) \o <<NL>>
    \o <<INDENT, "position: ">> \o Format(Get(row, F_POSITION, UNKNOWN)) \o <<NL, NL>>

AllText(rows, department_groups) ==
    <<"# all employees", NL>>                                              \* ■ 全社員名簿
    \o <<"total: ">> \o Digits(Len(rows)) \o <<" persons", NL, NL>>
    \o <<"employees per department:", NL>>
    \o Concat([g \in DOMAIN department_groups |->
                  <<"- ">> \o Format(department_groups[g].department) \o <<": ">>
                  \o Digits(Len(department_groups[g].employees)) \o <<" persons", NL>>])
    \o <<NL>>
    \o Concat([i \in DOMAIN rows |-> AllEntry(i, rows[i])])

AllDoc(csv_path, rows, department_groups) ==
    Document(AllText(rows, department_groups),
             [source |-> PyStr(csv_path),
              department |-> ALL_COMPANY,
              employee_count |-> PyInt(Len(rows)),
              type |-> PyStr(<<"all_employees_summary">>),
              file_name |-> PyStr(basename(csv_path))])

\* langchain's CSVLoader (ct.SUPPORTED_EXTENSIONS[".csv"]): one document per
\* row, "field: value" lines, metadata source and the 0-based row number.
CSVLoaderDoc(csv_path, header, row, n) ==
    LET line(k) == <<header[k], ": ">> \o Format(row[header[k]])
        text == Concat([k \in DOMAIN header |->
                           IF k = 1 THEN line(k) ELSE <<NL>> \o line(k)])
    IN  Document(text, [source |-> PyStr(csv_path), row |-> PyInt(n)])

CSVLoader(csv_path, file) ==
    LET rows == DictReader(file)
    IN  [i \in DOMAIN rows |-> CSVLoaderDoc(csv_path, file.header, rows[i], i - 1)]

\* Where the flattening raises: nowhere; in open/DictReader (lines 340-342);
\* after the HR document was appended (a print, lines 407-417); after all
\* summaries were appended (the print of line 476).
CsvFaults == {"none", "read", "after_hr", "after_summaries"}

\* The documents in unified_docs when the flattening has got as far as `stage`.
UnifiedDocs(csv_path, rows, stage) ==
    LET hr_employees == HrEmployees(rows)
        department_groups == DepartmentGroups(rows)
        hr == HrDocs(csv_path, hr_employees)
    IN  IF stage = "after_hr" THEN hr
        ELSE hr \o DeptDocs(csv_path, department_groups)
                \o <<AllDoc(csv_path, rows, department_groups)>>

\* The except branch (lines 480-488): the generic loader, or [] when it raises.
CsvFallbackKeepsPartial(csv_path, file, partial, loader_raises) ==
    IF loader_raises THEN partial ELSE partial \o CSVLoader(csv_path, file)

CsvFallback(csv_path, file, partial, loader_raises) ==
    IF loader_raises THEN <<>> ELSE CSVLoader(csv_path, file)

\* load_csv_as_unified_document: the value returned, with the locals that
\* decided it.  `fault` is where the flattening raises, `loader_raises` whether
\* the generic loader raises when it is fallen back to.
load_csv_as_unified_document(csv_path, file, fault, loader_raises) ==
    IF fault = "read"
    THEN [outcome |-> "fallback", rows |-> <<>>, partial |-> <<>>,
          result |-> CsvFallback(csv_path, file, <<>>, loader_raises)]
    ELSE LET rows == DictReader(file)
         IN  IF rows = <<>>
             THEN [outcome |-> "no_rows", rows |-> rows, partial |-> <<>>,
                   result |-> <<>>]
             ELSE IF fault = "none"
             THEN [outcome |-> "flattened", rows |-> rows, partial |-> <<>>,
                   result |-> UnifiedDocs(csv_path, rows, "done")]
             ELSE LET partial == UnifiedDocs(csv_path, rows, fault)
                  IN  [outcome |-> "fallback", rows |-> rows, partial |-> partial,
                       result |-> CsvFallback(csv_path, file, partial, loader_raises)]

-----------------------------------------------------------------------------
(* adjust_string.  The characters of the model: plain ones; KA followed by
   the combining mark U+3099, which NFC composes to GA; the angstrom sign
   U+212B, which cp932 can encode and NFC replaces by U+00C5, which cp932
   cannot encode; the cent sign U+00A2, which the cp932 codec encodes to the
   bytes of the fullwidth cent sign U+FFE0; and the characters cp932 cannot
   encode (the combining mark, U+00C5 and an emoji). *)

NotInCp932 == {"U+3099", "U+1F600", "U+00C5"}

\* unicodedata.normalize('NFC', s): KA followed by U+3099 becomes GA, the
\* angstrom sign becomes U+00C5
NFC(s) ==
    LET composed == [i \in DOMAIN s |->
                        IF i < Len(s) /\ s[i] = "KA" /\ s[i + 1] = "U+3099" THEN "GA"
                        ELSE IF i > 1 /\ s[i] = "U+3099" /\ s[i - 1] = "KA" THEN ""
                        ELSE IF s[i] = "U+212B" THEN "U+00C5"
                        ELSE s[i]]
    IN  SelectSeq(composed, LAMBDA c : c # "")

\* s.encode("cp932", "ignore").decode("cp932"): the characters without an
\* encoding are dropped, the cent sign comes back as the fullwidth one
Cp932Ignore(s) ==
    LET encodable == SelectSeq(s, LAMBDA c : c \notin NotInCp932)
    IN  [i \in DOMAIN encodable |->
            IF encodable[i] = "U+00A2" THEN "U+FFE0" ELSE encodable[i]]

IsWindows == platform = "win32"

\* the two steps of the Windows branch the other way round
adjust_string_encoding_first(s) ==
    IF ~IsStr(s) THEN s
    ELSE IF IsWindows THEN PyStr(NFC(Cp932Ignore(s[2])))
    ELSE s

adjust_string(s) ==
    IF ~IsStr(s) THEN s
    ELSE IF IsWindows THEN PyStr(Cp932Ignore(NFC(s[2])))
    ELSE s

\* lines 148-151: the content and every metadata value of every document
AdjustDoc(doc) ==
    [page_content |-> adjust_string(doc.page_content),
     metadata |-> [k \in DOMAIN doc.metadata |-> adjust_string(doc.metadata[k])]]

AdjustDocs(docs) == [i \in DOMAIN docs |-> AdjustDoc(docs[i])]

-----------------------------------------------------------------------------
(* CharacterTextSplitter(chunk_size, chunk_overlap, separator="\n") of
   langchain, as initialize_retriever configures it. *)

CHUNK_SIZE == 24
CHUNK_OVERLAP == 4

\* text.split("\n") without the empty pieces
SplitLines(text) ==
    LET n == Len(text)
        cuts == SelectSeq([i \in 1..(n + 2) |-> i - 1],
                          LAMBDA i : i = 0 \/ i = n + 1 \/ text[i] = NL)
        pieces == [k \in 1..(Len(cuts) - 1) |-> SubSeq(text, cuts[k] + 1, cuts[k + 1] - 1)]
    IN  SelectSeq(pieces, LAMBDA piece : piece # <<>>)

RECURSIVE Join(_)
Join(lines) ==
    IF lines = <<>> THEN <<>>
    ELSE IF Len(lines) = 1 THEN lines[1]
    ELSE lines[1] \o <<NL>> \o Join(Tail(lines))

RECURSIVE LStrip(_)
LStrip(s) == IF s # <<>> /\ Head(s) \in Whitespace THEN LStrip(Tail(s)) ELSE s

RECURSIVE RStrip(_)
RStrip(s) ==
    IF s # <<>> /\ s[Len(s)] \in Whitespace THEN RStrip(SubSeq(s, 1, Len(s) - 1)) ELSE s

\* _join_docs without the test for an empty text
JoinDocsKeepingEmpty(current_doc) == <<RStrip(LStrip(Join(current_doc)))>>

\* _join_docs: the joined, stripped text as a one-element list, [] when empty
JoinDocs(current_doc) ==
    LET text == RStrip(LStrip(Join(current_doc)))
    IN  IF text = <<>> THEN <<>> ELSE <<text>>

SepLen(current_doc, more) == IF Len(current_doc) > more THEN 1 ELSE 0

\* the while loop of _merge_splits that drops lines from the front of current_doc
RECURSIVE PopFront(_, _, _, _, _)
PopFront(current_doc, total, len, chunk_size, chunk_overlap) ==
    IF total > chunk_overlap
       \/ (total + len + SepLen(current_doc, 0) > chunk_size /\ total > 0)
    THEN PopFront(Tail(current_doc),
                  total - (Len(Head(current_doc)) + SepLen(current_doc, 1)), len,
                  chunk_size, chunk_overlap)
    ELSE [current_doc |-> current_doc, total |-> total]

RECURSIVE MergeSplits(_, _, _, _, _)
MergeSplits(splits, current_doc, total, chunk_size, chunk_overlap) ==
    IF splits = <<>> THEN JoinDocs(current_doc)
    ELSE LET d == Head(splits)
             len == Len(d)
             full == total + len + SepLen(current_doc, 0) > chunk_size
                     /\ Len(current_doc) > 0
             kept == IF full
                     THEN PopFront(current_doc, total, len, chunk_size, chunk_overlap)
                     ELSE [current_doc |-> current_doc, total |-> total]
             next_doc == Append(kept.current_doc, d)
         IN  (IF full THEN JoinDocs(current_doc) ELSE <<>>)
             \o MergeSplits(Tail(splits), next_doc,
                            kept.total + len + SepLen(next_doc, 1),
                            chunk_size, chunk_overlap)

\* CharacterTextSplitter(chunk_size, chunk_overlap, separator="\n").split_text(text)
CharacterTextSplitter(chunk_size, chunk_overlap, text) ==
    MergeSplits(SplitLines(text), <<>>, 0, chunk_size, chunk_overlap)

\* text_splitter.split_text, with text_splitter as lines 157-161 make it
split_text(text) == CharacterTextSplitter(CHUNK_SIZE, CHUNK_OVERLAP, text)

\* split_documents: every chunk carries a copy of its document's metadata
SplitDocument(doc) ==
    LET chunks == split_text(doc.page_content[2])
    IN  [i \in DOMAIN chunks |-> Document(chunks[i], doc.metadata)]

split_documents(docs) == Concat([i \in DOMAIN docs |-> SplitDocument(docs[i])])

-----------------------------------------------------------------------------
(* The environment: what the disk and the web hand to a script run.  It is
   read when the code reads it, so every run may find something else. *)

Header1 == <<F_ID, F_NAME, F_DEPT, F_POSITION>>
Header2 == <<F_ID, F_NAME, F_POSITION>>

\* The records of an employee file: the last one has fewer cells than either header.
Records(header) ==
    IF header = Header1
    THEN { << <<"E", "1">>, <<"A", "U+1F600">>, <<"HR">>, <<"M">> >>,
           << <<"E", "2">>, <<"B">>, <<"S", "A", "L", "E", "S">>, <<"S">> >>,
           << <<"E", "3">>, <<"KA", "U+3099">>, <<"HR">>, <<"S">> >>,
           << <<"E", "4">>, <<"D">> >> }
    ELSE { << <<"E", "1">>, <<"A", "U+1F600">>, <<"M">> >>,
           << <<"E", "2">>, <<"B">>, <<"S">> >>,
           << <<"E", "4">>, <<"D">> >> }

InjectiveSeqs(S, n) ==
    {r \in UNION {[1..k -> S] : k \in 0..n} :
        \A i, j \in DOMAIN r : i # j => r[i] # r[j]}

CsvFiles ==
    {[header |-> h, records |-> r] : h \in {Header1}, r \in InjectiveSeqs(Records(Header1), MaxRows)}
    \cup
    {[header |-> h, records |-> r] : h \in {Header2}, r \in InjectiveSeqs(Records(Header2), MaxRows)}

\* ct.RAG_TOP_FOLDER_PATH
RAG_TOP_FOLDER_PATH == <<".", "/", "data">>

File(stem, ext) == [kind |-> "file", name |-> <<stem, ext>>, children |-> <<>>]
Dir(name, children) == [kind |-> "dir", name |-> <<name>>, children |-> children]

\* What may be found at the root: nothing, an empty folder, a folder with the
\* employee file, a folder of documents, a nested folder with the employee
\* file, a text file and a file no loader is registered for.
Trees ==
    { [kind |-> "missing", name |-> <<>>, children |-> <<>>],
      Dir("data", <<>>),
      Dir("data", <<File("emp", ".csv")>>),
      Dir("data", <<File("a", ".pdf"), File("c", ".txt")>>),
      Dir("data", <<Dir("sub", <<File("emp", ".csv"), File("b", ".txt")>>),
                    File("note", ".xyz")>>) }

\* recursive_file_check: the paths file_load is called with, in call order.
\* A path that is no directory (a file, or nothing at all) goes to file_load.
RECURSIVE recursive_file_check(_, _)
recursive_file_check(path, node) ==
    IF node.kind = "dir"
    THEN Concat([i \in DOMAIN node.children |->
                    recursive_file_check(path \o <<"/">> \o node.children[i].name,
                                         node.children[i])])
    ELSE <<path>>

\* ct.SUPPORTED_EXTENSIONS (its keys)
SUPPORTED_EXTENSIONS == {".pdf", ".docx", ".csv", ".txt"}

\* What loader.load() of a file that is no csv can return (a raise apart):
\* the pages of a pdf, the one document of a text file, which may be empty.
LoadedDocs(path) ==
    LET src == PyStr(path)
    IN  IF splitext(path) = ".pdf"
        THEN { << Document(<<"p", "1", NL, "x">>, [source |-> src, page |-> PyInt(0)]),
                  Document(<<"p", "2", "U+1F600">>, [source |-> src, page |-> PyInt(1)]) >> }
        ELSE { << Document(<<>>, [source |-> src]) >>,
               << Document(<<"t", NL, "KA", "U+3099">>, [source |-> src]) >> }

\* ct.WEB_URL_LOAD_TARGETS
WEB_URL_LOAD_TARGETS == << <<"http", "://", "site", "/", "1">>, <<"http", "://", "site", "/", "2">> >>

\* WebBaseLoader(web_url).load() when it does not raise
WebDocs(web_url) == << Document(<<"w", "e", "b", NL>> \o web_url, [source |-> PyStr(web_url)]) >>

\* The disk and the web may hold something else at every read (Free), or
\* the same for every run of the session: Fixed(w), with w the folder tree,
\* how the employee file reads, what the loader of every other file does,
\* and the URLs whose fetch fails.
Free == <<"free">>
Fixed(w) == <<"fixed", w>>

\* os.path.isdir / os.listdir of the root, as recursive_file_check finds it
TreesFound == IF world = Free THEN Trees ELSE {world[2].tree}

\* How the employee file reads: its content, where the flattening raises,
\* whether the generic loader raises.
CsvReads ==
    IF world = Free
    THEN {[file |-> file, fault |-> fault, loader_raises |-> loader_raises] :
             file \in CsvFiles, fault \in CsvFaults, loader_raises \in BOOLEAN}
    ELSE {world[2].csv}

\* What loader.load() of a registered file that is no csv does: it raises,
\* or returns documents.
LoaderOutcomes(path) == {<<"raise">>} \cup {<<"docs", docs>> : docs \in LoadedDocs(path)}

LoadsFound(path) == IF world = Free THEN LoaderOutcomes(path) ELSE {world[2].load[path]}

\* Whether WebBaseLoader(web_url).load() returns
FetchesFound(web_url) ==
    IF world = Free THEN BOOLEAN ELSE {web_url \notin world[2].web_failed}

-----------------------------------------------------------------------------
(* The script run: main.py calls initialize(), which runs
   initialize_session_state, initialize_session_id, (initialize_logger, which
   touches no state of the model) and initialize_retriever. *)

KEY_ERROR == "OPENAI_API_KEY environment variable is not set"
NO_DOCS_ERROR == "No documents found to create embeddings"
NO_CHUNKS_ERROR == "No documents after splitting"
EMBEDDING_ERROR == "embedding request failed"

NoLoad == [kind |-> "none"]

\* No function is being applied on its own.
NoCall == [fn |-> "none"]

\* main.py, lines 146-164: what st.text_area and st.button return when the
\* page that triggered the run did not hold them (first load, or a page that
\* stopped at the initialization error).
NoInput == [send_button |-> FALSE, chat_message |-> PyStr(<<>>)]

\* The session before the first script run.
NewSession ==
    /\ pc = "idle"
    /\ runs = 0
    /\ platform \in {"win32", "linux"}
    /\ api_key \in BOOLEAN
    /\ retriever = Absent
    /\ messages = Absent
    /\ chat_history = Absent
    /\ session_id = Absent
    /\ initialized = FALSE
    /\ screen = [view |-> "none", error |-> NoExc, widgets |-> FALSE, input |-> NoInput]
    /\ exc = NoExc
    /\ todo = <<>>
    /\ docs_all = <<>>
    /\ web_todo = <<>>
    /\ web_docs_all = <<>>
    /\ splitted_docs = <<>>
    /\ db = Absent
    /\ last_load = NoLoad
    /\ had_retriever = FALSE
    /\ ingest_runs = 0
    /\ sourced = <<>>
    /\ log = <<>>
    /\ root_exists = TRUE

Init == NewSession /\ call = NoCall /\ world = Free

\* Streamlit runs main.py from the top: on load and on every interaction.
\* The locals of the previous run are gone.
RunScript ==
    /\ pc = "idle"
    /\ runs < MaxRuns
    /\ runs' = runs + 1
    /\ pc' = "initialize_session_state"
    /\ screen' = [view |-> "running", error |-> NoExc, widgets |-> screen.widgets,
                  input |-> NoInput]
    /\ had_retriever' = FALSE
    /\ sourced' = <<>>
    /\ last_load' = NoLoad
    /\ splitted_docs' = <<>>
    /\ db' = Absent
    /\ docs_all' = <<>>
    /\ log' = <<>>
    /\ root_exists' = TRUE
    /\ UNCHANGED <<world, call, platform, api_key, retriever, messages, chat_history, session_id,
                   initialized, exc, todo, web_todo, web_docs_all, ingest_runs>>

\* A guard that takes the logs for missing in every run (for comparison).
MessagesAlwaysMissing == TRUE

\* initialize_session_state, line 198: "messages" not in st.session_state
MessagesMissing == messages = Absent

\* initialize_session_state, lines 194-202
initialize_session_state ==
    /\ pc = "initialize_session_state"
    /\ IF MessagesMissing
       THEN messages' = <<>> /\ chat_history' = <<>>
       ELSE UNCHANGED <<messages, chat_history>>
    /\ pc' = "initialize_session_id"
    /\ UNCHANGED <<world, call, log, root_exists, runs, platform, api_key, retriever, session_id, initialized, screen,
                   exc, todo, docs_all, web_todo, web_docs_all, splitted_docs, db,
                   last_load, had_retriever, ingest_runs, sourced>>

\* initialize_session_id, line 112: uuid4().hex, the value drawn in script run
\* n; two draws never give the same value.
uuid4(n) == <<"uuid4", n>>

\* initialize_session_id, lines 106-112
initialize_session_id ==
    /\ pc = "initialize_session_id"
    /\ session_id' = IF session_id = Absent THEN uuid4(runs) ELSE session_id
    /\ pc' = "ir_clear"
    /\ UNCHANGED <<world, call, log, root_exists, runs, platform, api_key, retriever, messages, chat_history,
                   initialized, screen, exc, todo, docs_all, web_todo, web_docs_all,
                   splitted_docs, db, last_load, had_retriever, ingest_runs, sourced>>

\* initialize_retriever, lines 119-133: no early return when a retriever
\* exists (that guard is commented out); the existing retriever is deleted.
ir_clear ==
    /\ pc = "ir_clear"
    /\ had_retriever' = (retriever # Absent)
    /\ retriever' = Absent
    /\ pc' = "ir_key"
    /\ UNCHANGED <<world, call, log, root_exists, runs, platform, api_key, messages, chat_history, session_id,
                   initialized, screen, exc, todo, docs_all, web_todo, web_docs_all,
                   splitted_docs, db, last_load, ingest_runs, sourced>>

KeyUnchecked == FALSE

\* not openai_api_key (line 137)
KeyMissing == ~api_key

\* initialize_retriever, lines 135-138
ir_key ==
    /\ pc = "ir_key"
    /\ IF KeyMissing
       THEN pc' = "raised" /\ exc' = KEY_ERROR
       ELSE pc' = "lds_begin" /\ UNCHANGED exc
    /\ UNCHANGED <<world, call, log, root_exists, runs, platform, api_key, retriever, messages, chat_history,
                   session_id, initialized, screen, todo, docs_all, web_todo,
                   web_docs_all, splitted_docs, db, last_load, had_retriever,
                   ingest_runs, sourced>>

\* docs_all = [] (line 215)
docs_all_new == <<>>

web_docs_all_kept == web_docs_all

\* web_docs_all = [] (line 231)
web_docs_all_new == <<>>

WalkNext(rest) == IF rest = <<>> THEN "web_load" ELSE "file_load"

\* logger.warning(f"Data folder not found: {ct.RAG_TOP_FOLDER_PATH}") (line 220)
FolderNotFound == <<"Data folder not found", RAG_TOP_FOLDER_PATH>>

\* logger.warning(f"Failed to load web content from {web_url}: ...") (line 244)
WebLoadFailed(web_url) == <<"Failed to load web content", web_url>>

MissingRootRaises(rest) == "raised"

\* lines 219-227: a missing root folder is only logged, the walk is started
MissingRoot(rest) == WalkNext(rest)

\* load_data_sources, lines 212-227: the walk starts at the root folder,
\* whether it exists or not.
lds_begin ==
    /\ pc = "lds_begin"
    /\ \E tree \in TreesFound :
          /\ root_exists' = (tree.kind # "missing")
          /\ log' = IF root_exists' THEN log ELSE Append(log, FolderNotFound)
          /\ todo' = recursive_file_check(RAG_TOP_FOLDER_PATH, tree)
          /\ pc' = IF root_exists' THEN WalkNext(todo') ELSE MissingRoot(todo')
    /\ exc' = IF pc' = "raised" THEN "FileNotFoundError" ELSE exc
    /\ docs_all' = docs_all_new
    /\ web_todo' = WEB_URL_LOAD_TARGETS
    /\ web_docs_all' = web_docs_all_new
    /\ ingest_runs' = ingest_runs + 1
    /\ UNCHANGED <<world, call, runs, platform, api_key, retriever, messages, chat_history,
                   session_id, initialized, screen, splitted_docs, db,
                   last_load, had_retriever, sourced>>

LoadErrorReraised(rest) == "raised"

\* file_load, lines 320-323: the error is printed and dropped
LoadErrorAbsorbed(rest) == WalkNext(rest)

AnyExtensionSupported(file_extension) == TRUE

\* file_extension in ct.SUPPORTED_EXTENSIONS (line 303)
IsSupported(file_extension) == file_extension \in SUPPORTED_EXTENSIONS

\* file_load of the next path of the walk (one call of lines 289-323)
file_load ==
    /\ pc = "file_load"
    /\ LET path == Head(todo)
           file_extension == splitext(path)
       IN  \/ /\ ~IsSupported(file_extension)
              /\ last_load' = [kind |-> "skipped", path |-> path]
              /\ pc' = WalkNext(Tail(todo))
              /\ UNCHANGED <<docs_all, sourced, exc>>
           \/ /\ IsSupported(file_extension) /\ file_extension = ".csv"
              /\ \E read \in CsvReads :
                    LET csv == load_csv_as_unified_document(path, read.file, read.fault,
                                                            read.loader_raises)
                    IN  /\ last_load' = [kind |-> "csv", path |-> path, file |-> read.file,
                                         fault |-> read.fault,
                                         loader_raises |-> read.loader_raises,
                                         csv |-> csv]
                        /\ docs_all' = docs_all \o csv.result
                        /\ sourced' = sourced \o csv.result
              /\ pc' = WalkNext(Tail(todo))
              /\ UNCHANGED exc
           \/ /\ IsSupported(file_extension) /\ file_extension # ".csv"
              /\ \E load \in LoadsFound(path) :
                    /\ load[1] = "docs"
                    /\ last_load' = [kind |-> "loaded", path |-> path]
                    /\ docs_all' = docs_all \o load[2]
                    /\ sourced' = sourced \o load[2]
              /\ pc' = WalkNext(Tail(todo))
              /\ UNCHANGED exc
           \/ /\ IsSupported(file_extension) /\ file_extension # ".csv"
              /\ <<"raise">> \in LoadsFound(path)
              /\ last_load' = [kind |-> "raised", path |-> path]
              /\ pc' = LoadErrorAbsorbed(Tail(todo))
              /\ exc' = IF pc' = "raised" THEN "loader error" ELSE exc
              /\ UNCHANGED <<docs_all, sourced>>
    /\ todo' = Tail(todo)
    /\ UNCHANGED <<world, call, log, root_exists, runs, platform, api_key, retriever, messages, chat_history,
                   session_id, initialized, screen, web_todo, web_docs_all,
                   splitted_docs, db, had_retriever, ingest_runs>>

\* The URLs of this run whose fetch raised so far.
WebFailed == IF last_load.kind = "web" THEN last_load.failed ELSE {}

WebErrorReraised == "raised"

\* load_data_sources, lines 243-246: the error is logged and the loop continues
WebErrorAbsorbed == "web_load"

\* load_data_sources, lines 234-246: one URL of the loop
web_load ==
    /\ pc = "web_load"
    /\ web_todo # <<>>
    /\ LET web_url == Head(web_todo)
       IN  \/ /\ TRUE \in FetchesFound(web_url)
              /\ web_docs_all' = web_docs_all \o WebDocs(web_url)
              /\ sourced' = sourced \o WebDocs(web_url)
              /\ last_load' = [kind |-> "web", url |-> web_url, ok |-> TRUE,
                               failed |-> WebFailed]
              /\ UNCHANGED <<pc, exc, log>>
           \/ /\ FALSE \in FetchesFound(web_url)
              /\ last_load' = [kind |-> "web", url |-> web_url, ok |-> FALSE,
                               failed |-> WebFailed \cup {web_url}]
              /\ log' = Append(log, WebLoadFailed(web_url))
              /\ pc' = WebErrorAbsorbed
              /\ exc' = IF pc' = "raised" THEN "fetch error" ELSE exc
              /\ UNCHANGED <<web_docs_all, sourced>>
    /\ web_todo' = Tail(web_todo)
    /\ UNCHANGED <<world, call, root_exists, runs, platform, api_key, retriever, messages, chat_history,
                   session_id, initialized, screen, todo, docs_all,
                   splitted_docs, db, had_retriever, ingest_runs>>

\* load_data_sources, lines 248-258
lds_return ==
    /\ pc = "web_load"
    /\ web_todo = <<>>
    /\ docs_all' = docs_all \o web_docs_all
    /\ pc' = "ir_normalize"
    /\ UNCHANGED <<world, call, log, root_exists, runs, platform, api_key, retriever, messages, chat_history,
                   session_id, initialized, screen, exc, todo, web_todo,
                   web_docs_all, splitted_docs, db, last_load, had_retriever,
                   ingest_runs, sourced>>

NoDocsUnchecked(docs) == FALSE

\* not docs_all (line 144)
NoDocs(docs) == docs = <<>>

\* initialize_retriever, lines 144-151
ir_normalize ==
    /\ pc = "ir_normalize"
    /\ IF NoDocs(docs_all)
       THEN pc' = "raised" /\ exc' = NO_DOCS_ERROR /\ UNCHANGED docs_all
       ELSE pc' = "ir_split" /\ docs_all' = AdjustDocs(docs_all) /\ UNCHANGED exc
    /\ UNCHANGED <<world, call, log, root_exists, runs, platform, api_key, retriever, messages, chat_history,
                   session_id, initialized, screen, todo, web_todo, web_docs_all,
                   splitted_docs, db, last_load, had_retriever, ingest_runs, sourced>>

\* initialize_retriever, lines 153-167
ir_split ==
    /\ pc = "ir_split"
    /\ splitted_docs' = split_documents(docs_all)
    /\ IF NoDocs(splitted_docs')
       THEN pc' = "raised" /\ exc' = NO_CHUNKS_ERROR
       ELSE pc' = "ir_build" /\ UNCHANGED exc
    /\ UNCHANGED <<world, call, log, root_exists, runs, platform, api_key, retriever, messages, chat_history,
                   session_id, initialized, screen, todo, docs_all, web_todo,
                   web_docs_all, db, last_load, had_retriever, ingest_runs, sourced>>

FromDocumentsDroppingLast(chunks) == <<"faiss", SubSeq(chunks, 1, Len(chunks) - 1)>>

\* FAISS.from_documents(splitted_docs, embeddings): a new store of these chunks
FromDocuments(chunks) == <<"faiss", chunks>>

\* initialize_retriever, lines 169-174: the embedding service may fail
ir_build ==
    /\ pc = "ir_build"
    /\ \/ /\ db' = FromDocuments(splitted_docs)
          /\ pc' = "ir_publish"
          /\ UNCHANGED exc
       \/ /\ pc' = "raised"
          /\ exc' = EMBEDDING_ERROR
          /\ UNCHANGED db
    /\ UNCHANGED <<world, call, log, root_exists, runs, platform, api_key, retriever, messages, chat_history,
                   session_id, initialized, screen, todo, docs_all, web_todo,
                   web_docs_all, splitted_docs, last_load, had_retriever,
                   ingest_runs, sourced>>

\* initialize_retriever, line 177: st.session_state.retriever = db.as_retriever(...)
ir_publish ==
    /\ pc = "ir_publish"
    /\ retriever' = db
    /\ pc' = "ir_test"
    /\ UNCHANGED <<world, call, log, root_exists, runs, platform, api_key, messages, chat_history, session_id,
                   initialized, screen, exc, todo, docs_all, web_todo, web_docs_all,
                   splitted_docs, db, last_load, had_retriever, ingest_runs, sourced>>

\* initialize_retriever, lines 179-186: the test search embeds a query and may fail
ir_test ==
    /\ pc = "ir_test"
    /\ \/ pc' = "init_done" /\ UNCHANGED exc
       \/ pc' = "raised" /\ exc' = EMBEDDING_ERROR
    /\ UNCHANGED <<world, call, log, root_exists, runs, platform, api_key, retriever, messages, chat_history,
                   session_id, initialized, screen, todo, docs_all, web_todo,
                   web_docs_all, splitted_docs, db, last_load, had_retriever,
                   ingest_runs, sourced>>

\* The exception leaves initialize_retriever and initialize (both re-raise);
\* main.py, lines 42-48, shows it and stops the script.
main_init_failed ==
    /\ pc = "raised"
    /\ screen' = [view |-> "init_error", error |-> exc, widgets |-> FALSE,
                  input |-> NoInput]
    /\ exc' = NoExc
    /\ pc' = "idle"
    /\ UNCHANGED <<world, call, log, root_exists, runs, platform, api_key, retriever, messages, chat_history,
                   session_id, initialized, todo, docs_all, web_todo, web_docs_all,
                   splitted_docs, db, last_load, had_retriever, ingest_runs, sourced>>

\* main.py, lines 146-164: the values the text area and the send button hand
\* to the run.  The button is True only in the run its click triggered, so
\* only when the page that triggered the run held the widgets.
ChatMessages == {PyStr(<<>>), PyStr(<<" ">>), PyStr(<<"q">>), PyStr(<<" ", "q">>)}

WidgetInputs(widgets) ==
    IF widgets
    THEN [send_button : BOOLEAN, chat_message : ChatMessages]
    ELSE {NoInput}

\* main.py, line 168: send_button and chat_message and chat_message.strip()
ShouldSend(send_button, chat_message) ==
    /\ send_button
    /\ chat_message[2] # <<>>
    /\ RStrip(LStrip(chat_message[2])) # <<>>

\* main.py, lines 171-172, how the run ends once should_send is True.
\* Line 171 assigns st.session_state.chat_input after the widget with that
\* key was created in this run: Streamlit raises StreamlitAPIException there
\* ("widget_error", the exception is shown and the run ends).  Were the
\* assignment accepted, line 172, st.rerun(), ends the run at once ("rerun").
\* Either way the run never comes to line 178.
SendEndings == {"widget_error", "rerun"}

\* main.py, lines 50-172: the run shows the chat (messages is empty, so
\* display_conversation_log shows nothing), reads the widgets and decides
\* whether to send.  Lines 178-242 run only after the if-block of lines
\* 168-172 has been left with should_send True, which never happens.
main_serve ==
    /\ pc = "init_done"
    /\ initialized' = TRUE
    /\ \E input \in WidgetInputs(screen.widgets) :
          IF ShouldSend(input.send_button, input.chat_message)
          THEN \E ending \in SendEndings :
                   screen' = [view |-> ending, error |-> NoExc, widgets |-> TRUE,
                              input |-> input]
          ELSE screen' = [view |-> "chat", error |-> NoExc, widgets |-> TRUE,
                          input |-> input]
    /\ pc' = "idle"
    /\ UNCHANGED <<world, call, log, root_exists, runs, platform, api_key, retriever, messages, chat_history,
                   session_id, exc, todo, docs_all, web_todo, web_docs_all,
                   splitted_docs, db, last_load, had_retriever, ingest_runs, sourced>>

Next ==
    \/ RunScript
    \/ initialize_session_state
    \/ initialize_session_id
    \/ ir_clear
    \/ ir_key
    \/ lds_begin
    \/ file_load
    \/ web_load
    \/ lds_return
    \/ ir_normalize
    \/ ir_split
    \/ ir_build
    \/ ir_publish
    \/ ir_test
    \/ main_init_failed
    \/ main_serve

Spec == Init /\ [][Next]_vars

-----------------------------------------------------------------------------
(* Properties *)

\* The positions of initialize_retriever between the deletion of the old
\* retriever and the publication of the new one.
RebuildPcs == {"ir_key", "lds_begin", "file_load", "web_load", "ir_normalize",
               "ir_split", "ir_build", "ir_publish"}

\* The positions inside the walk/load/normalize/chunk/embed/index pipeline.
PipelinePcs == RebuildPcs \ {"ir_key", "lds_begin"}

\* C1: a rebuild never leaves the session without a retriever: when
\* initialize_retriever began with a retriever published, one is published at
\* every later step of that run, also when the rebuild fails.
C1_RetrieverKeptDuringRebuild == had_retriever => retriever # Absent

\* C2: ingestion executes once: a call of initialize_retriever that finds a
\* retriever published does not run the pipeline again.
C2_IngestionOnce == ~(had_retriever /\ pc \in PipelinePcs)

\* C3: a successful run of initialize_retriever publishes exactly the chunks of
\* the documents its own ingestion collected, in order: nothing of an earlier
\* run is in the index.
C3_IndexFullyReplaced ==
    (retriever # Absent /\ pc \in {"ir_test", "init_done", "raised", "idle"})
        => retriever = <<"faiss", split_documents(AdjustDocs(sourced))>>

C3_Witness ==
    /\ runs = 2
    /\ had_retriever
    /\ pc = "init_done"
    /\ retriever # Absent
    /\ Len(retriever[2]) > Len(sourced)

EmptyCorpusErrors == {NO_DOCS_ERROR, NO_CHUNKS_ERROR}

\* C4: an empty corpus is fatal: with zero documents the run does not get past
\* the check of line 144, with zero chunks not past that of line 166; the error
\* is raised with no retriever published, main.py shows it and stops the run,
\* and no published index is ever empty.
C4_EmptyCorpusFatal ==
    /\ pc = "ir_split" => docs_all # <<>>
    /\ pc \in {"ir_build", "ir_publish"} => splitted_docs # <<>>
    /\ exc \in EmptyCorpusErrors => retriever = Absent /\ pc = "raised"
    /\ screen.error \in EmptyCorpusErrors
          => screen.view = "init_error" /\ retriever = Absent /\ pc = "idle"
    /\ retriever # Absent => retriever[2] # <<>>

C4_Witness ==
    /\ pc = "idle"
    /\ screen.error = NO_CHUNKS_ERROR
    /\ docs_all # <<>>
    /\ runs = 2

\* C5: without OPENAI_API_KEY nothing is ingested: load_data_sources is never
\* entered, no file or URL is loaded, nothing is chunked or indexed, and the
\* only error a run ends with is the missing key.
C5_KeyCheckedBeforeIngestion ==
    ~api_key =>
        /\ ingest_runs = 0
        /\ pc \notin (RebuildPcs \ {"ir_key"})
        /\ sourced = <<>> /\ docs_all = <<>> /\ web_docs_all = <<>>
        /\ splitted_docs = <<>> /\ db = Absent /\ retriever = Absent
        /\ last_load = NoLoad
        /\ exc \in {NoExc, KEY_ERROR}
        /\ screen.error \in {NoExc, KEY_ERROR}

C5_Witness == ~api_key /\ pc = "idle" /\ screen.error = KEY_ERROR /\ runs = 2

\* C6: a loader that raises is absorbed by file_load: the step adds no
\* document, raises nothing, keeps what docs_all held and moves the walk on to
\* the next path.
C6_LoadErrorAbsorbed ==
    [][(pc = "file_load" /\ last_load'.kind = "raised")
          => /\ docs_all' = docs_all
             /\ sourced' = sourced
             /\ exc' = NoExc
             /\ todo' = Tail(todo)
             /\ pc' = (IF todo' = <<>> THEN "web_load" ELSE "file_load")]_vars

C6_Witness ==
    /\ last_load.kind = "raised"
    /\ docs_all # <<>>
    /\ pc = "file_load"
    /\ todo # <<>>

\* The latest file_load was a call of load_csv_as_unified_document.
CsvCalled == last_load.kind = "csv"

\* The flattening raised: the file could not be read, or it had rows and a
\* later statement raised.
FlatteningRaised ==
    /\ CsvCalled
    /\ \/ last_load.fault = "read"
       \/ last_load.fault # "none" /\ DictReader(last_load.file) # <<>>

EndsWith(docs, tail) ==
    /\ Len(docs) >= Len(tail)
    /\ SubSeq(docs, Len(docs) - Len(tail) + 1, Len(docs)) = tail

\* C7: when the flattening raises, load_csv_as_unified_document raises nothing
\* and returns what the generic CSV loader returns for the path, or [] when
\* that loader raises too; no summary document built before the error is
\* returned, and file_load appends exactly the returned documents.
C7_FlattenFallback ==
    FlatteningRaised =>
        /\ last_load.csv.outcome = "fallback"
        /\ exc = NoExc /\ pc # "raised"
        /\ last_load.csv.result =
              (IF last_load.loader_raises THEN <<>>
               ELSE CSVLoader(last_load.path, last_load.file))
        /\ \A i \in DOMAIN last_load.csv.partial :
              last_load.csv.partial[i] \notin Range(last_load.csv.result)
        /\ EndsWith(docs_all, last_load.csv.result)

C7_Witness ==
    /\ FlatteningRaised
    /\ Len(last_load.csv.partial) >= 3
    /\ ~last_load.loader_raises
    /\ Len(last_load.csv.result) >= 2

\* The flattening ran to its end over at least one row.
Flattened == CsvCalled /\ last_load.csv.outcome = "flattened"

TypeOf(doc) == Get(doc.metadata, "type", None)

DocsOfType(docs, type) == SelectSeq(docs, LAMBDA doc : TypeOf(doc) = PyStr(<<type>>))

\* The numbered lines of a summary, "<n>. <name> (<id>)", in text order.
NumberedLines(doc) ==
    SelectSeq(SplitLines(doc.page_content[2]),
              LAMBDA line : Len(line) >= 2 /\ line[2] = ". ")

\* The employee id a numbered line ends with.
IdOfLine(line) ==
    LET p == CHOOSE q \in DOMAIN line :
                 line[q] = " (" /\ \A r \in DOMAIN line : line[r] = " (" => r <= q
    IN  SubSeq(line, p + 1, Len(line) - 1)

IdOfRow(row) == Format(Get(row, F_ID, UNKNOWN))

\* C8: the flattening of a file with rows returns one all_employees_summary;
\* its numbered entries are the rows, in row order, entry i numbered i and
\* naming row i, every row being named by exactly one entry; employee_count is
\* the number of rows.
C8_AllRowsOnce ==
    Flattened =>
        LET rows == last_load.csv.rows
            summaries == DocsOfType(last_load.csv.result, "all_employees_summary")
        IN  /\ Len(summaries) = 1
            /\ LET entries == NumberedLines(summaries[1])
               IN  /\ Len(entries) = Len(rows)
                   /\ \A i \in DOMAIN rows :
                         /\ entries[i] = <<ToString(i), ". ">>
                                           \o Format(Get(rows[i], F_NAME, UNKNOWN))
                                           \o <<" (">> \o IdOfRow(rows[i]) \o <<")">>
                         /\ Cardinality({k \in DOMAIN entries :
                                           IdOfLine(entries[k]) = IdOfRow(rows[i])}) = 1
            /\ summaries[1].metadata.employee_count = PyInt(Len(rows))

C8_Witness ==
    /\ Flattened
    /\ Len(last_load.csv.rows) = 3
    /\ \E i \in DOMAIN last_load.csv.rows :
          Get(last_load.csv.rows[i], F_DEPT, UNKNOWN) = None

RECURSIVE SumCounts(_)
SumCounts(docs) ==
    IF docs = <<>> THEN 0
    ELSE Head(docs).metadata.employee_count[2] + SumCounts(Tail(docs))

\* The places <<d, k>> where department summary d lists the row as member k.
ListedAt(summaries, row) ==
    {dk \in UNION {{<<d, k>> : k \in DOMAIN NumberedLines(summaries[d])} :
                      d \in DOMAIN summaries} :
        IdOfLine(NumberedLines(summaries[dk[1]])[dk[2]]) = IdOfRow(row)}

\* C9: the department_summary documents partition the rows: every row is
\* listed exactly once over all of them, in the summary of its own value of
\* the grouping field; together they list as many members as there are rows,
\* and their employee_count values add up to the number of rows.
C9_DepartmentsPartitionRows ==
    Flattened =>
        LET rows == last_load.csv.rows
            summaries == DocsOfType(last_load.csv.result, "department_summary")
        IN  /\ \A i \in DOMAIN rows :
                  /\ Cardinality(ListedAt(summaries, rows[i])) = 1
                  /\ \A dk \in ListedAt(summaries, rows[i]) :
                        summaries[dk[1]].metadata.department
                            = Get(rows[i], F_DEPT, UNKNOWN)
            /\ \A d \in DOMAIN summaries :
                  /\ Len(NumberedLines(summaries[d])) >= 1
                  /\ summaries[d].metadata.employee_count
                        = PyInt(Len(NumberedLines(summaries[d])))
            /\ \A d, e \in DOMAIN summaries :
                  d # e => summaries[d].metadata.department # summaries[e].metadata.department
            /\ SumCounts(summaries) = Len(rows)

C9_Witness ==
    /\ Flattened
    /\ Len(last_load.csv.rows) = 3
    /\ Len(DocsOfType(last_load.csv.result, "department_summary")) = 2

GroupValues(rows) == {Get(rows[i], F_DEPT, UNKNOWN) : i \in DOMAIN rows}

HasHighPriorityRow(rows) == \E i \in DOMAIN rows : Get(rows[i], F_DEPT, UNKNOWN) = HR

\* C10: the number of documents the flattening returns follows from the rows:
\* none for a file without rows; otherwise one department_summary per distinct
\* value of the grouping field, one all_employees_summary, and one
\* hr_complete_list exactly when some row is in the high-priority department.
C10_DocumentCount ==
    (CsvCalled /\ last_load.fault = "none") =>
        LET rows == DictReader(last_load.file)
            result == last_load.csv.result
        IN  IF rows = <<>>
            THEN last_load.csv.outcome = "no_rows" /\ result = <<>>
            ELSE /\ last_load.csv.outcome = "flattened"
                 /\ Len(DocsOfType(result, "department_summary"))
                       = Cardinality(GroupValues(rows))
                 /\ Len(DocsOfType(result, "all_employees_summary")) = 1
                 /\ Len(DocsOfType(result, "hr_complete_list"))
                       = (IF HasHighPriorityRow(rows) THEN 1 ELSE 0)
                 /\ Len(result) = Cardinality(GroupValues(rows)) + 1
                                    + (IF HasHighPriorityRow(rows) THEN 1 ELSE 0)

\* three rows, two departments, two of the rows in the high-priority one: 4 documents
C10_Witness ==
    /\ Flattened
    /\ Len(last_load.csv.rows) = 3
    /\ Cardinality(GroupValues(last_load.csv.rows)) = 2
    /\ Len(HrEmployees(last_load.csv.rows)) = 2
    /\ Len(last_load.csv.result) = 4

\* The row has no value for the grouping field: the header has no such
\* column, or the row has fewer cells than the header (restval None).
NoGroupValue(row) == F_DEPT \notin DOMAIN row \/ row[F_DEPT] = None

\* C11: a row without a value for the grouping field is never dropped and is
\* in the "unknown" group: exactly one department summary lists it, that
\* summary's department is the unknown placeholder, and the all-rows summary
\* lists it.
C11_NoValueIsUnknown ==
    Flattened =>
        LET rows == last_load.csv.rows
            summaries == DocsOfType(last_load.csv.result, "department_summary")
            all == DocsOfType(last_load.csv.result, "all_employees_summary")
        IN  \A i \in DOMAIN rows :
                NoGroupValue(rows[i]) =>
                    /\ Cardinality(ListedAt(summaries, rows[i])) = 1
                    /\ \A dk \in ListedAt(summaries, rows[i]) :
                          summaries[dk[1]].metadata.department = UNKNOWN
                    /\ ListedAt(all, rows[i]) # {}

\* C12: file_load of a path whose extension is not registered is a skip: the
\* call raises nothing, goes to no loader (neither the flattening nor a
\* registered loader is called), leaves docs_all as it was and hands the walk
\* on to the next path.
C12_UnsupportedSkipped ==
    [][(pc = "file_load" /\ splitext(Head(todo)) \notin SUPPORTED_EXTENSIONS)
          => /\ last_load' = [kind |-> "skipped", path |-> Head(todo)]
             /\ docs_all' = docs_all
             /\ sourced' = sourced
             /\ exc' = NoExc
             /\ todo' = Tail(todo)
             /\ pc' = (IF todo' = <<>> THEN "web_load" ELSE "file_load")]_vars

C12_Witness ==
    /\ last_load.kind = "skipped"
    /\ splitext(last_load.path) = ".xyz"
    /\ docs_all # <<>>

\* load_data_sources has returned to initialize_retriever.
Returned == pc = "ir_normalize"

SourceOf(doc) == Get(doc.metadata, "source", None)

\* The documents of the configured URLs that were fetched, in list order.
FetchedDocs(failed) ==
    Concat([i \in DOMAIN WEB_URL_LOAD_TARGETS |->
               IF WEB_URL_LOAD_TARGETS[i] \in failed THEN <<>>
               ELSE WebDocs(WEB_URL_LOAD_TARGETS[i])])

\* C13: a fetch that raises is absorbed.  The failing turn of the loop raises
\* nothing, adds nothing to web_docs_all, keeps docs_all and goes on to the
\* next URL; and when load_data_sources returns, the list holds the local
\* documents followed by the documents of every URL that was fetched, and no
\* document of a URL whose fetch failed.
C13_WebErrorAbsorbed ==
    /\ [][(pc = "web_load" /\ web_todo # <<>> /\ ~last_load'.ok)
             => /\ web_docs_all' = web_docs_all
                /\ docs_all' = docs_all
                /\ sourced' = sourced
                /\ exc' = NoExc
                /\ web_todo' = Tail(web_todo)
                /\ pc' = "web_load"]_vars
    /\ [](Returned =>
             /\ exc = NoExc
             /\ docs_all = sourced
             /\ EndsWith(docs_all, FetchedDocs(WebFailed))
             /\ \A i \in DOMAIN docs_all :
                   SourceOf(docs_all[i]) \notin {PyStr(u) : u \in WebFailed})

C13_Witness ==
    /\ Returned
    /\ WebFailed = {WEB_URL_LOAD_TARGETS[1]}
    /\ Len(docs_all) >= 3
    /\ SourceOf(docs_all[Len(docs_all)]) = PyStr(WEB_URL_LOAD_TARGETS[2])

\* The positions of load_data_sources after the check of the root folder,
\* and the return to initialize_retriever.
AfterRootCheck == {"file_load", "web_load", "ir_normalize"}

\* C14: when the root folder does not exist load_data_sources raises nothing:
\* the warning of line 220 is logged, the walk adds no document, every
\* configured URL is still fetched, and the returned list is exactly the
\* documents of the URLs that could be fetched.
C14_MissingRootContinues ==
    /\ [][(pc = "lds_begin" /\ ~root_exists')
             => /\ exc' = NoExc
                /\ pc' = "file_load"
                /\ docs_all' = <<>>
                /\ log' = Append(log, FolderNotFound)]_vars
    /\ []((~root_exists /\ pc \in AfterRootCheck) =>
             /\ exc = NoExc
             /\ FolderNotFound \in Range(log)
             /\ pc \in {"file_load", "web_load"} => docs_all = <<>>
             /\ pc = "file_load" => todo = <<RAG_TOP_FOLDER_PATH>>
             /\ Returned =>
                   /\ web_todo = <<>>
                   /\ web_docs_all = FetchedDocs(WebFailed)
                   /\ docs_all = FetchedDocs(WebFailed))

C14_Witness ==
    /\ ~root_exists
    /\ Returned
    /\ WebFailed = {}
    /\ Len(docs_all) = Len(WEB_URL_LOAD_TARGETS)

-----------------------------------------------------------------------------
(* components.py: display_search_llm_response and
   display_contact_llm_response, the functions that turn an answer of the
   chain into the content kept in the conversation log.  A dict is a function
   over its keys; an exception that leaves the function is Raised(name). *)

MaxContext == 3

\* ct.ANSWER_MODE_1, ct.ANSWER_MODE_2
ANSWER_MODE_1 == "document search"      \* 社内文書検索
ANSWER_MODE_2 == "inquiry"              \* 社内問い合わせ

\* ct.NO_DOC_MATCH_ANSWER, ct.NO_DOC_MATCH_MESSAGE, ct.INQUIRY_NO_MATCH_ANSWER
NO_DOC_MATCH_ANSWER == PyStr(<<"no matching document">>)
NO_DOC_MATCH_MESSAGE == PyStr(<<"no document matched the input">>)
INQUIRY_NO_MATCH_ANSWER == PyStr(<<"no answer found">>)

\* the literals of lines 190, 256 and 331
MAIN_MESSAGE == PyStr(<<"the information may be in this file">>)
SUB_MESSAGE == PyStr(<<"other candidate files">>)
SOURCES_MESSAGE == PyStr(<<"sources">>)                         \* 情報源

Raised(name) == <<"raised", name>>

EmptyDict == [k \in {} |-> None]

\* a dict a function returns
Dict(d) == <<"dict", d>>

\* "（ページ" and "（行", the openings of the page and row suffixes, and "）"
PAGE_OPEN == "(page "
ROW_OPEN == "(row "
SUFFIX_CLOSE == ")"

NeverSeen(list, path) == FALSE

\* sub_file_path in duplicate_check_list (line 229), file_path in file_path_list (line 343)
Seen(list, path) == path \in Range(list)

\* lines 236-248: the dict of one sub document
SubChoice(document) ==
    LET sub_file_path == document.metadata.source
    IN  IF "page" \in DOMAIN document.metadata
        THEN [source |-> sub_file_path, page_number |-> document.metadata.page]
        ELSE IF "row" \in DOMAIN document.metadata
        THEN [source |-> sub_file_path, row_number |-> document.metadata.row]
        ELSE [source |-> sub_file_path]

\* lines 214-251: the loop over llm_response["context"][1:]
RECURSIVE SubChoices(_, _, _, _)
SubChoices(documents, main_file_path, duplicate_check_list, sub_choices) ==
    IF documents = <<>> THEN sub_choices
    ELSE LET document == Head(documents)
             sub_file_path == document.metadata.source
         IN  IF sub_file_path = main_file_path
             THEN SubChoices(Tail(documents), main_file_path,
                             duplicate_check_list, sub_choices)
             ELSE IF Seen(duplicate_check_list, sub_file_path)
             THEN SubChoices(Tail(documents), main_file_path,
                             duplicate_check_list, sub_choices)
             ELSE SubChoices(Tail(documents), main_file_path,
                             Append(duplicate_check_list, sub_file_path),
                             Append(sub_choices, SubChoice(document)))

HasAnswer(llm_response) == llm_response.answer # NO_DOC_MATCH_ANSWER

\* llm_response["context"] and llm_response["answer"] != ct.NO_DOC_MATCH_ANSWER (line 181)
HasMatch(llm_response) ==
    llm_response.context # <<>> /\ llm_response.answer # NO_DOC_MATCH_ANSWER

display_search_llm_response(llm_response) ==
    IF HasMatch(llm_response)
    THEN IF llm_response.context = <<>> THEN Raised("IndexError")    \* context[0]
         ELSE
         LET first == llm_response.context[1]
             main_file_path == first.metadata.source
             sub_choices == SubChoices(Tail(llm_response.context), main_file_path,
                                       <<>>, <<>>)
         IN  Dict([mode |-> ANSWER_MODE_1,
                   main_message |-> MAIN_MESSAGE,
                   main_file_path |-> main_file_path]
                  @@ (IF "page" \in DOMAIN first.metadata
                      THEN [main_page_number |-> first.metadata.page]
                      ELSE IF "row" \in DOMAIN first.metadata
                      THEN [main_row_number |-> first.metadata.row]
                      ELSE EmptyDict)
                  @@ (IF sub_choices # <<>>
                      THEN [sub_message |-> SUB_MESSAGE, sub_choices |-> sub_choices]
                      ELSE EmptyDict))
    ELSE Dict([mode |-> ANSWER_MODE_1,
               answer |-> NO_DOC_MATCH_MESSAGE,
               no_file_path_flg |-> TRUE])

\* lines 346-359: the file info of one document
FileInfo(document) ==
    LET file_path == Format(document.metadata.source)
    IN  IF "page" \in DOMAIN document.metadata
        THEN PyStr(file_path \o <<PAGE_OPEN>> \o Format(document.metadata.page)
                   \o <<SUFFIX_CLOSE>>)
        ELSE IF "row" \in DOMAIN document.metadata
        THEN PyStr(file_path \o <<ROW_OPEN>> \o Format(document.metadata.row)
                   \o <<SUFFIX_CLOSE>>)
        ELSE PyStr(file_path)

\* lines 333-367: the loop over llm_response["context"]
RECURSIVE FileInfoList(_, _, _)
FileInfoList(documents, file_path_list, file_info_list) ==
    IF documents = <<>> THEN file_info_list
    ELSE LET document == Head(documents)
             file_path == document.metadata.source
         IN  IF Seen(file_path_list, file_path)
             THEN FileInfoList(Tail(documents), file_path_list, file_info_list)
             ELSE FileInfoList(Tail(documents), Append(file_path_list, file_path),
                               Append(file_info_list, FileInfo(document)))

\* llm_response["answer"] != ct.INQUIRY_NO_MATCH_ANSWER (lines 326, 380)
ListsSources(llm_response) == llm_response.answer # INQUIRY_NO_MATCH_ANSWER

display_contact_llm_response(llm_response) ==
    Dict([mode |-> ANSWER_MODE_2, answer |-> llm_response.answer]
         @@ (IF ListsSources(llm_response)
             THEN [message |-> SOURCES_MESSAGE,
                   file_info_list |-> FileInfoList(llm_response.context, <<>>, <<>>)]
             ELSE EmptyDict))

\* The chunks a retrieval can return: two pages of one pdf, a row of a csv
\* file read by the generic loader, a text file.
ContextDocs ==
    LET pdf == PyStr(<<".", "/", "data", "/", "a", ".pdf">>)
        csv == PyStr(<<".", "/", "data", "/", "emp", ".csv">>)
        txt == PyStr(<<".", "/", "data", "/", "c", ".txt">>)
    IN  { Document(<<"p", "1">>, [source |-> pdf, page |-> PyInt(0)]),
          Document(<<"p", "2">>, [source |-> pdf, page |-> PyInt(1)]),
          Document(<<"r">>, [source |-> csv, row |-> PyInt(0)]),
          Document(<<"t">>, [source |-> txt]) }

Contexts == UNION {[1..n -> ContextDocs] : n \in 0..MaxContext}

Answers == {NO_DOC_MATCH_ANSWER, INQUIRY_NO_MATCH_ANSWER, PyStr(<<"an answer">>)}

\* main.py, lines 210-222, applied to an answer of the chain
DisplayInit ==
    /\ NewSession
    /\ world = Free
    /\ call \in {[fn |-> "display", mode |-> mode, content |-> Absent,
                  llm_response |-> [answer |-> answer, context |-> context]] :
                    mode \in {ANSWER_MODE_1, ANSWER_MODE_2},
                    answer \in Answers, context \in Contexts}

\* lines 214-216: content = cn.display_search_llm_response(llm_response)
main_display_search ==
    /\ call.fn = "display" /\ call.content = Absent
    /\ call.mode = ANSWER_MODE_1
    /\ call' = [call EXCEPT !.content = display_search_llm_response(call.llm_response)]
    /\ UNCHANGED <<world, pc, runs, platform, api_key, retriever, messages, chat_history,
                   session_id, initialized, screen, exc, todo, docs_all, web_todo,
                   web_docs_all, splitted_docs, db, last_load, had_retriever,
                   ingest_runs, sourced, log, root_exists>>

\* lines 220-222: content = cn.display_contact_llm_response(llm_response)
main_display_contact ==
    /\ call.fn = "display" /\ call.content = Absent
    /\ call.mode = ANSWER_MODE_2
    /\ call' = [call EXCEPT !.content = display_contact_llm_response(call.llm_response)]
    /\ UNCHANGED <<world, pc, runs, platform, api_key, retriever, messages, chat_history,
                   session_id, initialized, screen, exc, todo, docs_all, web_todo,
                   web_docs_all, splitted_docs, db, last_load, had_retriever,
                   ingest_runs, sourced, log, root_exists>>

DisplayNext ==
    \/ main_display_search
    \/ main_display_contact

DisplaySpec == DisplayInit /\ [][DisplayNext]_vars

\* A display function has returned a dict for the call.
Displayed == call.fn = "display" /\ call.content[1] = "dict"

\* The positions of the context whose source no earlier position has.
FirstOccurrences(context) ==
    SelectSeq([i \in DOMAIN context |-> i],
              LAMBDA i : \A j \in 1..(i - 1) : SourceOf(context[j]) # SourceOf(context[i]))

\* The path of a file info: what precedes the page or row suffix (as the
\* conversation log recovers it, components.py lines 159-164).
PathOfInfo(file_info) ==
    LET s == file_info[2]
        cut == {i \in DOMAIN s : s[i] \in {PAGE_OPEN, ROW_OPEN}}
    IN  IF cut = {} THEN PyStr(s)
        ELSE PyStr(SubSeq(s, 1, (CHOOSE i \in cut : \A j \in cut : i <= j) - 1))

\* C15: in document-search mode the main result is the first chunk of the
\* context, and sub_choices holds, in first-occurrence order, one entry for
\* every source of the later chunks other than the main source: none equal to
\* the main source, no two with the same source.  In inquiry mode
\* file_info_list holds one entry per distinct source of the context, in
\* first-occurrence order.
C15_SourcesDeduplicated ==
    Displayed =>
        LET context == call.llm_response.context
            content == call.content[2]
            firsts == FirstOccurrences(context)
        IN  /\ "main_file_path" \in DOMAIN content =>
                  LET sub_choices == Get(content, "sub_choices", <<>>)
                      others == SelectSeq(firsts, LAMBDA i :
                                   SourceOf(context[i]) # SourceOf(context[1]))
                  IN  /\ content.main_file_path = SourceOf(context[1])
                      /\ \A k \in DOMAIN sub_choices :
                            sub_choices[k].source # content.main_file_path
                      /\ \A k, l \in DOMAIN sub_choices :
                            k # l => sub_choices[k].source # sub_choices[l].source
                      /\ Len(sub_choices) = Len(others)
                      /\ \A k \in DOMAIN others :
                            sub_choices[k].source = SourceOf(context[others[k]])
            /\ "file_info_list" \in DOMAIN content =>
                  LET file_info_list == content.file_info_list
                  IN  /\ Len(file_info_list) = Len(firsts)
                      /\ \A k \in DOMAIN firsts :
                            PathOfInfo(file_info_list[k]) = SourceOf(context[firsts[k]])

\* search mode: main pdf, then the same pdf again, the csv, the csv again
C15_Witness ==
    /\ Displayed
    /\ "sub_choices" \in DOMAIN call.content[2]
    /\ Len(call.llm_response.context) = 3
    /\ Len(call.content[2].sub_choices) = 1
    /\ SourceOf(call.llm_response.context[2]) = SourceOf(call.llm_response.context[1])

\* C16: an answer whose context is empty cites no source.  The display
\* function returns (it raises nothing), and the content it returns has no
\* main_file_path, no sub_choices and no file_info_list with an entry; in
\* document-search mode it is the "no match" content, whatever the answer says.
C16_EmptyContextCitesNothing ==
    (call.fn = "display" /\ call.content # Absent
        /\ call.llm_response.context = <<>>) =>
        /\ call.content[1] = "dict"
        /\ LET content == call.content[2]
           IN  /\ "main_file_path" \notin DOMAIN content
               /\ "sub_choices" \notin DOMAIN content
               /\ Get(content, "file_info_list", <<>>) = <<>>
               /\ call.mode = ANSWER_MODE_1 =>
                     content = [mode |-> ANSWER_MODE_1,
                                answer |-> NO_DOC_MATCH_MESSAGE,
                                no_file_path_flg |-> TRUE]

C16_Witness ==
    /\ call.fn = "display"
    /\ call.mode = ANSWER_MODE_1
    /\ call.llm_response.context = <<>>
    /\ call.llm_response.answer \notin {NO_DOC_MATCH_ANSWER, INQUIRY_NO_MATCH_ANSWER}
    /\ call.content = Dict([mode |-> ANSWER_MODE_1,
                            answer |-> NO_DOC_MATCH_MESSAGE,
                            no_file_path_flg |-> TRUE])

-----------------------------------------------------------------------------
(* The session over sources that stay the same from one script run to the
   next: every run finds the same folder tree in the same listing order, the
   same file contents and the same answers of the web. *)

\* The registered files of a tree that are no csv, by path.
OtherFiles(tree) ==
    {path \in Range(recursive_file_check(RAG_TOP_FOLDER_PATH, tree)) :
        IsSupported(splitext(path)) /\ splitext(path) # ".csv"}

\* The number in the employee id of a record ("E1" is 1).
RecordNo(rec) == CHOOSE n \in 1..9 : rec[1] = <<"E", ToString(n)>>

\* The employee files of the fixed sources: no record, or MaxRows records
\* in the order of their ids.
WorldCsvFiles ==
    {file \in CsvFiles :
        /\ Len(file.records) \in {0, MaxRows}
        /\ \A i, j \in DOMAIN file.records :
              i < j => RecordNo(file.records[i]) < RecordNo(file.records[j])}

\* How the employee file of a tree reads (one way when it has none).
WorldCsvReads(tree) ==
    IF \E path \in Range(recursive_file_check(RAG_TOP_FOLDER_PATH, tree)) :
           splitext(path) = ".csv"
    THEN {[file |-> file, fault |-> fault, loader_raises |-> loader_raises] :
             file \in WorldCsvFiles, fault \in CsvFaults, loader_raises \in BOOLEAN}
    ELSE {[file |-> [header |-> Header1, records |-> <<>>], fault |-> "none",
           loader_raises |-> FALSE]}

Worlds ==
    UNION {{[tree |-> tree, csv |-> read, load |-> load, web_failed |-> web_failed] :
               read \in WorldCsvReads(tree),
               load \in {f \in [OtherFiles(tree) -> UNION {LoaderOutcomes(path) :
                                                              path \in OtherFiles(tree)}] :
                            \A path \in OtherFiles(tree) : f[path] \in LoaderOutcomes(path)},
               web_failed \in SUBSET Range(WEB_URL_LOAD_TARGETS)} :
           tree \in Trees}

ReplayInit ==
    /\ NewSession
    /\ call = NoCall
    /\ world \in {Fixed(w) : w \in Worlds}

ReplaySpec == ReplayInit /\ [][Next]_vars

\* What the sources w hand over, path by path in walk order, then URL by URL.
DocsOfPath(w, path) ==
    IF splitext(path) \notin SUPPORTED_EXTENSIONS THEN <<>>
    ELSE IF splitext(path) = ".csv"
    THEN load_csv_as_unified_document(path, w.csv.file, w.csv.fault,
                                      w.csv.loader_raises).result
    ELSE IF w.load[path][1] = "docs" THEN w.load[path][2]
    ELSE <<>>

DocsOfSources(w) ==
    LET paths == recursive_file_check(RAG_TOP_FOLDER_PATH, w.tree)
    IN  Concat([i \in DOMAIN paths |-> DocsOfPath(w, paths[i])])
        \o FetchedDocs(w.web_failed)

ChunksOfSources(w) == split_documents(AdjustDocs(DocsOfSources(w)))

\* C17: over identical sources every ingestion run produces the same: the
\* documents load_data_sources returns, the chunks and their metadata, and the
\* index published are those the sources alone determine, in the first run
\* and in every later one, whatever the run before left behind.
C17_IngestionRepeatable ==
    world # Free =>
        /\ Returned => docs_all = DocsOfSources(world[2])
        /\ pc \in {"ir_build", "ir_publish", "ir_test", "init_done"}
              => splitted_docs = ChunksOfSources(world[2])
        /\ retriever # Absent => retriever[2] = ChunksOfSources(world[2])

C17_Witness ==
    /\ world # Free
    /\ runs = 2
    /\ had_retriever
    /\ pc = "init_done"
    /\ retriever # Absent
    /\ Len(retriever[2]) >= 4

-----------------------------------------------------------------------------
(* adjust_string applied to a value, and again to what it returned. *)

MaxLen == 3

Characters == {"a", "KA", "GA", "U+3099", "U+212B", "U+00A2", "U+1F600"}

\* The values adjust_string is given: strings, and the values of metadata
\* that are no strings.
Values ==
    {PyStr(s) : s \in UNION {[1..n -> Characters] : n \in 0..MaxLen}}
    \cup {None, PyInt(0), PyInt(12)}

AdjustInit ==
    /\ NewSession
    /\ world = Free
    /\ call \in {[fn |-> "adjust_string", s |-> s, once |-> Absent, twice |-> Absent] :
                    s \in Values}

\* once = adjust_string(s)
adjust_once ==
    /\ call.fn = "adjust_string" /\ call.once = Absent
    /\ call' = [call EXCEPT !.once = adjust_string(call.s)]
    /\ UNCHANGED <<world, pc, runs, platform, api_key, retriever, messages, chat_history,
                   session_id, initialized, screen, exc, todo, docs_all, web_todo,
                   web_docs_all, splitted_docs, db, last_load, had_retriever,
                   ingest_runs, sourced, log, root_exists>>

\* twice = adjust_string(once)
adjust_twice ==
    /\ call.fn = "adjust_string" /\ call.once # Absent /\ call.twice = Absent
    /\ call' = [call EXCEPT !.twice = adjust_string(call.once)]
    /\ UNCHANGED <<world, pc, runs, platform, api_key, retriever, messages, chat_history,
                   session_id, initialized, screen, exc, todo, docs_all, web_todo,
                   web_docs_all, splitted_docs, db, last_load, had_retriever,
                   ingest_runs, sourced, log, root_exists>>

AdjustNext ==
    \/ adjust_once
    \/ adjust_twice

AdjustSpec == AdjustInit /\ [][AdjustNext]_vars

\* C18: adjust_string is idempotent, on either platform and for strings and
\* other values alike; a value that is no string is returned as it is, and
\* so is every string when the platform is not Windows.
C18_AdjustIdempotent ==
    call.fn = "adjust_string" =>
        /\ call.twice # Absent => call.twice = call.once
        /\ call.once # Absent =>
              /\ ~IsStr(call.s) => call.once = call.s
              /\ platform # "win32" => call.once = call.s

\* on Windows, a string the first application changes and the second does not
C18_Witness ==
    /\ call.fn = "adjust_string"
    /\ platform = "win32"
    /\ call.s = PyStr(<<"KA", "U+3099", "U+212B">>)
    /\ call.once = PyStr(<<"GA">>)
    /\ call.twice = call.once

-----------------------------------------------------------------------------
(* The chunker applied to one text, for several settings of chunk size and
   overlap, the one of initialize_retriever among them. *)

MaxLines == 3

Xs(n) == [i \in 1..n |-> "x"]

\* The lines a text is made of: empty, blank, short, and longer than a chunk.
LineShapes == {Xs(0), <<" ">>, Xs(1), Xs(3), Xs(7), Xs(25)}

Texts == {Join(lines) : lines \in UNION {[1..n -> LineShapes] : n \in 0..MaxLines}}

\* chunk_size and chunk_overlap, chunk_overlap < chunk_size
SplitterSettings ==
    {[chunk_size |-> CHUNK_SIZE, chunk_overlap |-> CHUNK_OVERLAP],
     [chunk_size |-> 6, chunk_overlap |-> 2],
     [chunk_size |-> 5, chunk_overlap |-> 0]}

ChunkInit ==
    /\ NewSession
    /\ world = Free
    /\ call \in {[fn |-> "split_text", text |-> text, chunks |-> Absent,
                  chunk_size |-> setting.chunk_size,
                  chunk_overlap |-> setting.chunk_overlap] :
                    text \in Texts, setting \in SplitterSettings}

\* text_splitter.split_text(text)
split_one ==
    /\ call.fn = "split_text" /\ call.chunks = Absent
    /\ call' = [call EXCEPT !.chunks =
                   <<"list", CharacterTextSplitter(call.chunk_size, call.chunk_overlap,
                                                   call.text)>>]
    /\ UNCHANGED <<world, pc, runs, platform, api_key, retriever, messages, chat_history,
                   session_id, initialized, screen, exc, todo, docs_all, web_todo,
                   web_docs_all, splitted_docs, db, last_load, had_retriever,
                   ingest_runs, sourced, log, root_exists>>

ChunkSpec == ChunkInit /\ [][split_one]_vars

\* The text has been split.
Split == call.fn = "split_text" /\ call.chunks # Absent

\* ceil(n / d)
CeilDiv(n, d) == (n + d - 1) \div d

\* C19 as stated: a text of length L yields ceil(L / (C - O)) chunks, none
\* when L = 0 and exactly one when 0 < L <= C.
C19_ChunkCountFormula ==
    Split =>
        LET L == Len(call.text)
            count == Len(call.chunks[2])
        IN  /\ count = CeilDiv(L, call.chunk_size - call.chunk_overlap)
            /\ L = 0 => count = 0
            /\ (0 < L /\ L <= call.chunk_size) => count = 1

Visible(text) == \E i \in DOMAIN text : text[i] \notin Whitespace

\* C19 amended: the number of chunks follows from the lines of the text.  A
\* text of length 0, or of line breaks and blanks only, yields no chunk; a text
\* with a visible character yields exactly one chunk when its length is at
\* most C (the text stripped of the empty lines and of the blanks at its
\* ends), and otherwise at least one chunk and at most one per non-empty line.
C19_ChunkCountByLines ==
    Split =>
        LET L == Len(call.text)
            chunks == call.chunks[2]
            lines == SplitLines(call.text)
        IN  /\ L = 0 => chunks = <<>>
            /\ ~Visible(call.text) => chunks = <<>>
            /\ (Visible(call.text) /\ L <= call.chunk_size)
                  => chunks = <<RStrip(LStrip(Join(lines)))>>
            /\ Visible(call.text) => Len(chunks) >= 1 /\ Len(chunks) <= Len(lines)

\* three lines of 7 characters with chunk size 24 and overlap 4: L = 23, one
\* chunk, where the formula gives two
C19_Witness ==
    /\ Split
    /\ call.chunk_size = CHUNK_SIZE /\ call.chunk_overlap = CHUNK_OVERLAP
    /\ call.text = Join(<<Xs(7), Xs(7), Xs(7)>>)
    /\ Len(call.chunks[2]) = 1

-----------------------------------------------------------------------------
(* The chat turn (main.py, sections 6 and 7) *)

\* The run that is ending read a pressed send button and a message that is
\* not blank (main.py, line 168: should_send is True).
SendPressed ==
    /\ pc = "idle"
    /\ screen.input.send_button
    /\ RStrip(LStrip(screen.input.chat_message[2])) # <<>>

\* C20: when the send button is pressed with a message that is not blank, the
\* turn is processed in that script run: the run ends with one user entry for
\* the message followed by one assistant entry appended to
\* st.session_state.messages.
C20_TurnProcessed ==
    [][(pc = "init_done" /\ SendPressed')
          => /\ Len(messages') = Len(messages) + 2
             /\ messages'[Len(messages) + 1].role = "user"
             /\ messages'[Len(messages) + 1].content = screen'.input.chat_message
             /\ messages'[Len(messages) + 2].role = "assistant"]_vars

-----------------------------------------------------------------------------
(* The chat send processing (main.py, lines 178-242) applied on its own:    *)
(* the run stands at line 178 with should_send True.  In Spec no run comes  *)
(* there (see main_serve), so the block is given its own specification.     *)

MaxTurns == 2

\* utils.py, line 144: HumanMessage(content=chat_message)
HumanMessage(content) == <<"HumanMessage", content>>

\* utils.py, line 144:
\* st.session_state.chat_history.extend([HumanMessage(...), llm_response["answer"]])
ExtendChatHistory(history, chat_message, llm_response) ==
    history \o <<HumanMessage(chat_message), llm_response.answer>>

\* main.py, lines 240-242: the two appends to st.session_state.messages
AppendMessages(msgs, chat_message, content) ==
    msgs \o <<[role |-> "user", content |-> chat_message],
              [role |-> "assistant", content |-> content]>>

\* What chain.invoke (utils.py, line 137) can return.
LlmResponses == [answer : Answers, context : Contexts]

\* main.py, lines 211-234: content as the display function of the mode returns
\* it, or an exception raised while the answer is drawn (a Streamlit element
\* call inside the display function failing), which lines 228-234 catch.
DisplayOutcomes(mode, llm_response) ==
    { IF mode = ANSWER_MODE_1
      THEN display_search_llm_response(llm_response)
      ELSE display_contact_llm_response(llm_response),
      Raised("Exception") }

\* The two logs after n turns that went through, the oldest first.
RECURSIVE RecordedTurns(_)
RecordedTurns(n) ==
    IF n = 0 THEN [messages |-> <<>>, chat_history |-> <<>>]
    ELSE LET before == RecordedTurns(n - 1)
             chat_message == PyStr(<<"q", ToString(n)>>)
             llm_response == [answer |-> INQUIRY_NO_MATCH_ANSWER, context |-> <<>>]
         IN  [messages |-> AppendMessages(before.messages, chat_message,
                               display_contact_llm_response(llm_response)),
              chat_history |-> ExtendChatHistory(before.chat_history, chat_message,
                                                 llm_response)]

\* The store the retrieval draws from: the chunks of ContextDocs, in some order.
IndexedChunks ==
    CHOOSE chunks \in [1..Cardinality(ContextDocs) -> ContextDocs] :
        \A d \in ContextDocs : \E i \in DOMAIN chunks : chunks[i] = d

\* The run has come to main.py, line 178, with should_send True, in a session
\* that recorded up to MaxTurns turns before.
TurnInit ==
    /\ pc = "chat_send"
    /\ runs = 1
    /\ platform \in {"win32", "linux"}
    /\ api_key = TRUE
    /\ retriever = FromDocuments(IndexedChunks)
    /\ \E n \in 0..MaxTurns :
          /\ messages = RecordedTurns(n).messages
          /\ chat_history = RecordedTurns(n).chat_history
    /\ session_id = uuid4(1)
    /\ initialized = TRUE
    /\ \E input \in WidgetInputs(TRUE) :
          /\ ShouldSend(input.send_button, input.chat_message)
          /\ screen = [view |-> "running", error |-> NoExc, widgets |-> TRUE,
                       input |-> input]
    /\ exc = NoExc
    /\ todo = <<>>
    /\ docs_all = <<>>
    /\ web_todo = <<>>
    /\ web_docs_all = <<>>
    /\ splitted_docs = <<>>
    /\ db = Absent
    /\ last_load = NoLoad
    /\ had_retriever = FALSE
    /\ ingest_runs = 1
    /\ sourced = <<>>
    /\ log = <<>>
    /\ root_exists = TRUE
    /\ world = Free
    /\ call \in {[fn |-> "turn", mode |-> mode, llm_response |-> Absent,
                  content |-> Absent] : mode \in {ANSWER_MODE_1, ANSWER_MODE_2}}

\* main.py, lines 178-242, with utils.get_llm_response (utils.py, lines 63-150):
\*   - chain.invoke raises (utils.py, line 137): nothing was recorded, lines
\*     199-205 show the error and stop the script;
\*   - it returns: get_llm_response extends chat_history (line 144) and
\*     returns; then the answer is displayed (lines 210-227); when that raises,
\*     lines 228-234 show the error and stop the script before lines 240-242;
\*     otherwise lines 240-242 append the two entries to messages.
main_chat_send ==
    /\ pc = "chat_send"
    /\ LET chat_message == screen.input.chat_message
       IN  \/ /\ call' = [call EXCEPT !.llm_response = Raised("Exception")]
              /\ screen' = [screen EXCEPT !.view = "llm_error"]
              /\ UNCHANGED <<messages, chat_history>>
           \/ \E llm_response \in LlmResponses :
              \E content \in DisplayOutcomes(call.mode, llm_response) :
                 /\ chat_history' = ExtendChatHistory(chat_history, chat_message,
                                                      llm_response)
                 /\ call' = [call EXCEPT !.llm_response = Dict(llm_response),
                                         !.content = content]
                 /\ IF content[1] = "raised"
                    THEN /\ screen' = [screen EXCEPT !.view = "display_error"]
                         /\ UNCHANGED messages
                    ELSE /\ screen' = [screen EXCEPT !.view = "answered"]
                         /\ messages' = AppendMessages(messages, chat_message, content)
    /\ pc' = "idle"
    /\ UNCHANGED <<world, runs, platform, api_key, retriever, session_id, initialized,
                   exc, todo, docs_all, web_todo, web_docs_all, splitted_docs, db,
                   last_load, had_retriever, ingest_runs, sourced, log, root_exists>>

TurnSpec == TurnInit /\ [][main_chat_send]_vars

-----------------------------------------------------------------------------
(* initialize() run again over a session that holds recorded turns *)

\* The session between two script runs, after the first run published a
\* retriever and the logs came to hold up to MaxTurns turns.
RerunInit ==
    /\ pc = "idle"
    /\ runs = 1
    /\ platform \in {"win32", "linux"}
    /\ api_key \in BOOLEAN
    /\ retriever = FromDocuments(IndexedChunks)
    /\ \E n \in 1..MaxTurns :
          /\ messages = RecordedTurns(n).messages
          /\ chat_history = RecordedTurns(n).chat_history
    /\ session_id = uuid4(1)
    /\ initialized = TRUE
    /\ screen = [view |-> "answered", error |-> NoExc, widgets |-> TRUE,
                 input |-> NoInput]
    /\ exc = NoExc
    /\ todo = <<>>
    /\ docs_all = <<>>
    /\ web_todo = <<>>
    /\ web_docs_all = <<>>
    /\ splitted_docs = <<>>
    /\ db = Absent
    /\ last_load = NoLoad
    /\ had_retriever = FALSE
    /\ ingest_runs = 1
    /\ sourced = <<>>
    /\ log = <<>>
    /\ root_exists = TRUE
    /\ world = Free
    /\ call = NoCall

RerunSpec == RerunInit /\ [][Next]_vars

\* C22: running initialize() again keeps the session bookkeeping: when
\* messages and session_id exist in the session state,
\* initialize_session_state leaves messages and chat_history as they are and
\* initialize_session_id leaves session_id as it is, and no later step of the
\* run changes them either, in every rerun.
C22_BookkeepingPreserved ==
    [][/\ messages # Absent
          => messages' = messages /\ chat_history' = chat_history
       /\ session_id # Absent => session_id' = session_id]_vars

\* A rerun has passed initialize_session_state and initialize_session_id over
\* logs that hold MaxTurns turns.
C22_Witness ==
    /\ runs = MaxRuns
    /\ pc = "ir_clear"
    /\ Len(messages) = 2 * MaxTurns
    /\ Len(chat_history) = 2 * MaxTurns
    /\ session_id = uuid4(1)

====
